---------------------------- MODULE Spec2Model ----------------------------
(***************************************************************************)
(* SpMV benchmark (src/src/csrpar.cpp): the OpenMP program (lines 1-244)   *)
(* and the sequential program (lines 247-420).  Both read a Matrix Market  *)
(* file, sort the triplets, build a CSR matrix, draw a random vector, then *)
(* call the SpMV kernel once (warm-up) and NUM_RUNS times (timed).         *)
(*                                                                         *)
(* C++ arrays are modelled as functions on 0..n-1, so that indices read as *)
(* in the source.  A double is modelled as an integer held in a binary     *)
(* floating-point format of MantBits significant bits with                 *)
(* round-to-nearest-even: addition and multiplication round, so the order  *)
(* of an accumulation is observable in its result.  Command-line arguments *)
(* are modelled after stoi (argc and the stoi failures of lines 106-126    *)
(* are outside the model).                                                 *)
(***************************************************************************)
EXTENDS Integers, Sequences, FiniteSets, TLC

(***************************************************************************)
(* Bounds of the model.                                                    *)
(***************************************************************************)
\* largest number of matrix rows in an input file of the sequential program
MaxRows == 3
\* largest number of matrix rows in an input file of the OpenMP program
ParRows == 2
\* largest number of matrix rows in a direct call of a kernel
KernelRows == 3
\* largest number of nonzeros in a direct call of a kernel
KernelNnz == 2
\* largest number of matrix columns in an input file
MaxCols == 2
\* largest number of nonzeros in an input file of the sequential program
MaxNnz == 3
\* largest number of nonzeros in an input file of the OpenMP program
ParNnz == 1
\* largest number of rows and of columns on the size line of an unchecked file
AnyDim == 1
\* largest number of nonzeros of an unchecked file of the sequential program
AnyNnz == 2
\* largest number of matrix columns in an input file of the fair runs
FairCols == 1
\* largest OpenMP team
MaxThreads == 2
\* largest chunk size given on the command line
MaxChunk == 2
\* significant bits of the modelled floating-point format
MantBits == 3

\* the loop count of the timed runs
NUM_RUNS == 10

\* matrix values found in the input files
FileVals == {1, 5}
\* values the random generator draws for the input vector
VecVals == {-1, 1, 2}
\* vector entries in a direct call of a kernel
KernelVecVals == {-1, 2}
\* contents an output buffer may hold before a kernel is called on it
BufVals == {0, 7}
\* what a read of v_in beyond the vector may find in memory
GarbageVals == {0, 3}
\* the schedule names the program accepts, and one it does not
Schedules == {"static", "dynamic", "guided"}
ScheduleArgs == Schedules \cup {"bogus"}

(***************************************************************************)
(* double: rounding to MantBits significant bits, nearest, ties to even.   *)
(***************************************************************************)
RECURSIVE Pow2(_)
Pow2(n) == IF n <= 0 THEN 1 ELSE 2 * Pow2(n - 1)

\* the spacing of representable numbers around magnitude a
RECURSIVE Quantum(_, _)
Quantum(a, q) == IF a < Pow2(MantBits) * q THEN q ELSE Quantum(a, 2 * q)

RoundAbs(a) ==
    LET q  == Quantum(a, 1)
        m  == a \div q
        lo == m * q
        r  == a - lo
    IN  IF 2 * r < q THEN lo
        ELSE IF 2 * r > q THEN lo + q
        ELSE IF m % 2 = 0 THEN lo ELSE lo + q

Round(x) == IF x >= 0 THEN RoundAbs(x) ELSE 0 - RoundAbs(0 - x)

FAdd(a, b) == Round(a + b)

FMul(a, b) == Round(a * b)

(***************************************************************************)
(* Arrays.                                                                 *)
(***************************************************************************)
\* std::vector<T>(n, x)
Filled(n, x) == [k \in 0 .. n - 1 |-> x]

Size(a) == Cardinality(DOMAIN a)

\* the permutations of 0..n-1
Perms(n) == {p \in [0 .. n - 1 -> 0 .. n - 1] :
                \A a, b \in 0 .. n - 1 : a # b => p[a] # p[b]}

(***************************************************************************)
(* State.                                                                  *)
(***************************************************************************)
VARIABLES
    program,       \* "csrpar", "csrseq", or "kernel" for a direct call of a kernel
    pc,            \* position of main
    schedule_str,  \* argv[2]
    chunk_size,    \* argv[3] after stoi
    num_threads,   \* argv[4] after stoi
    omp,           \* OpenMP control variables set by omp_set_num_threads / omp_set_schedule
    file,          \* the Matrix Market file: size line and data lines (1-based indices)
    rows, cols, nnz,
    triplets,      \* vector<Triplet>, 0-based indices
    csr,           \* CsrMatrix
    current_row,   \* COO -> CSR scan
    scan_i,        \* loop index of the COO -> CSR scan
    v_input,
    c_output,
    team,          \* the threads of the parallel region: loop position and locals of each
    next_iter,     \* the runtime's shared iteration counter (dynamic, guided)
    run,           \* loop index of the timed runs
    times_ms,
    calls,         \* kernel invocations that have returned
    csv,           \* the line written to standard output
    c_entry,       \* history: c_output as it was when the running kernel was called
    writes,        \* history: per row, the threads that stored c_out[i] in this invocation
    acc,           \* history: per row, the <<thread, j>> accumulated in this invocation
    cerr,          \* the message written to standard error
    execution,     \* which execution of the program on the file this is (1, 2)
    v_first        \* history: v_input of the execution before this one

vars == <<program, pc, schedule_str, chunk_size, num_threads, omp, file, rows, cols, nnz,
          triplets, csr, current_row, scan_i, v_input, c_output, team, next_iter,
          run, times_ms, calls, csv, c_entry, writes, acc, cerr, execution, v_first>>

argVars == <<program, schedule_str, chunk_size, num_threads>>
buildVars == <<rows, cols, nnz, triplets, csr, current_row, scan_i>>
kernelVars == <<team, next_iter, c_entry, writes, acc>>
benchVars == <<run, times_ms, calls, csv>>
runVars == <<execution, v_first>>

(***************************************************************************)
(* Triplets and their order.                                               *)
(***************************************************************************)
Triplet(r, c, v) == [row |-> r, col |-> c, val |-> v]

\* lines 18-22 with a.col > b.col
compareTriplets_ColDesc(a, b) ==
    IF a.row < b.row THEN TRUE
    ELSE IF a.row = b.row THEN a.col > b.col
    ELSE FALSE

\* lines 18-22 without the comparison of the columns
compareTriplets_RowOnly(a, b) == a.row < b.row

compareTriplets(a, b) ==
    IF a.row < b.row THEN TRUE
    ELSE IF a.row = b.row THEN a.col < b.col
    ELSE FALSE

\* line 182 missing: the triplets stay in the order of the file
SortResults_None(t) == {t}

\* std::sort: some permutation of t in which no element is ordered before an
\* earlier one; elements that compare equivalent end in an unspecified order
SortResults(t) ==
    LET n == Size(t)
    IN  {s \in {[k \in 0 .. n - 1 |-> t[p[k]]] : p \in Perms(n)} :
            \A a, b \in 0 .. n - 1 : a < b => ~compareTriplets(s[b], s[a])}

(***************************************************************************)
(* CsrMatrix.                                                              *)
(***************************************************************************)
\* a default-constructed CsrMatrix
EmptyCsr ==
    [rows |-> 0, cols |-> 0, nnz |-> 0,
     row_ptr |-> Filled(0, 0), col_ind |-> Filled(0, 0), values |-> Filled(0, 0)]

\* lines 184-190: dimensions set, row_ptr.assign(rows + 1, 0), col_ind and values resized
AllocCsr(r, c, n) ==
    [rows |-> r, cols |-> c, nnz |-> n,
     row_ptr |-> Filled(r + 1, 0), col_ind |-> Filled(n, 0), values |-> Filled(n, 0)]

\* lines 193-201 with "if" in place of "while": one row_ptr slot per triplet
ScanBody_If(A, cur, t, i) ==
    LET last == IF cur < t[i].row THEN cur + 1 ELSE cur
    IN  <<[A EXCEPT !.col_ind[i] = t[i].col,
                    !.values[i]  = t[i].val,
                    !.row_ptr = [k \in DOMAIN A.row_ptr |->
                                    IF cur < k /\ k <= last THEN i ELSE A.row_ptr[k]]],
          last>>

\* lines 193-201 with row_ptr[current_row] = i + 1
ScanBody_OffByOne(A, cur, t, i) ==
    LET last == IF cur < t[i].row THEN t[i].row ELSE cur
    IN  <<[A EXCEPT !.col_ind[i] = t[i].col,
                    !.values[i]  = t[i].val,
                    !.row_ptr = [k \in DOMAIN A.row_ptr |->
                                    IF cur < k /\ k <= last THEN i + 1 ELSE A.row_ptr[k]]],
          last>>

\* one iteration i of the scan, lines 193-201, on the pair <<csr, current_row>>
ScanBody(A, cur, t, i) ==
    LET last == IF cur < t[i].row THEN t[i].row ELSE cur
    IN  <<[A EXCEPT !.col_ind[i] = t[i].col,
                    !.values[i]  = t[i].val,
                    !.row_ptr = [k \in DOMAIN A.row_ptr |->
                                    IF cur < k /\ k <= last THEN i ELSE A.row_ptr[k]]],
          last>>

\* lines 202-204 with i < rows in place of i <= rows
BackfillBody_Exclusive(A, cur, r, n) ==
    [A EXCEPT !.row_ptr = [k \in DOMAIN A.row_ptr |->
                              IF cur + 1 <= k /\ k < r THEN n ELSE A.row_ptr[k]]]

\* lines 202-204
BackfillBody(A, cur, r, n) ==
    [A EXCEPT !.row_ptr = [k \in DOMAIN A.row_ptr |->
                              IF cur + 1 <= k /\ k <= r THEN n ELSE A.row_ptr[k]]]

\* the scan, lines 193-201, from iteration i to the last
RECURSIVE ScanLoop(_, _, _, _)
ScanLoop(A, cur, t, i) ==
    IF i < Size(t)
    THEN LET r == ScanBody(A, cur, t, i) IN ScanLoop(r[1], r[2], t, i + 1)
    ELSE <<A, cur>>

\* lines 182-204 as a whole: the matrices the construction can leave for the
\* triplets t of an r x c matrix
BuildResults(t, r, c) ==
    {BackfillBody(x[1], x[2], r, Size(t)) :
        x \in {ScanLoop(AllocCsr(r, c, Size(t)), 0, s, 0) : s \in SortResults(t)}}

(***************************************************************************)
(* spmv_csr_sequential.                                                    *)
(***************************************************************************)
\* lines 49-51 with j running from row_end - 1 down to its start
RECURSIVE RowLoop_Desc(_, _, _, _, _)
RowLoop_Desc(A, v, j, row_end, sum) ==
    IF j < row_end
    THEN RowLoop_Desc(A, v, j, row_end - 1,
                      FAdd(sum, FMul(A.values[row_end - 1], v[A.col_ind[row_end - 1]])))
    ELSE sum

\* the inner loop, lines 49-51: j from its start to row_end - 1
RECURSIVE RowLoop(_, _, _, _, _)
RowLoop(A, v, j, row_end, sum) ==
    IF j < row_end
    THEN RowLoop(A, v, j + 1, row_end, FAdd(sum, FMul(A.values[j], v[A.col_ind[j]])))
    ELSE sum

\* the outer loop, lines 45-53, from row i on
RECURSIVE OuterLoop(_, _, _, _)
OuterLoop(A, v, c, i) ==
    IF i < A.rows
    THEN OuterLoop(A, v,
                   [c EXCEPT ![i] = RowLoop(A, v, A.row_ptr[i], A.row_ptr[i + 1], 0)],
                   i + 1)
    ELSE c

spmv_csr_sequential(A, v, c) == OuterLoop(A, v, c, 0)

\* lines 45-53: every v_in[col_ind[j]] the loops read is inside v
ReadsInBounds(A, v) ==
    \A i \in 0 .. A.rows - 1 :
        \A j \in A.row_ptr[i] .. A.row_ptr[i + 1] - 1 : A.col_ind[j] \in DOMAIN v

(***************************************************************************)
(* spmv_csr_parallel: #pragma omp parallel for schedule(runtime).          *)
(* Each thread of the team asks the runtime for a chunk of the iteration   *)
(* space 0..rows-1 (GetChunk), runs the loop body on the rows of the       *)
(* chunk (Accumulate, StoreRow), and waits at the barrier that ends the    *)
(* region when no chunk is left.                                           *)
(***************************************************************************)
Min(a, b) == IF a < b THEN a ELSE b
Max(a, b) == IF a < b THEN b ELSE a

\* a thread entering the region
FreshThread ==
    [pc |-> "sched", k |-> 0, i |-> 0, hi |-> 0, j |-> 0, row_end |-> 0, sum |-> 0]

\* schedule(static) without a chunk size: one contiguous block per thread
StaticBlock(w, T, N) ==
    LET q == N \div T
        t == N % T
    IN  IF w < t
        THEN [lo |-> w * (q + 1), hi |-> w * (q + 1) + q + 1]
        ELSE [lo |-> w * q + t, hi |-> w * q + t + q]

\* line 72 as "#pragma omp parallel" without "for": every thread runs the whole loop
NextChunk_NoFor(w) ==
    IF team[w].k = 0
    THEN [lo |-> 0, hi |-> csr.rows]
    ELSE [lo |-> csr.rows, hi |-> csr.rows]

\* the chunk [lo, hi) the runtime hands thread w next; lo >= hi when none is left
NextChunk(w) ==
    LET T == omp.nthreads
        N == csr.rows
        c == IF omp.chunk < 1 THEN 1 ELSE omp.chunk
        k == team[w].k
    IN  CASE omp.kind = "static" /\ omp.chunk < 1 ->
                IF k = 0 THEN StaticBlock(w, T, N) ELSE [lo |-> N, hi |-> N]
          [] omp.kind = "static" /\ omp.chunk >= 1 ->
                [lo |-> (w + k * T) * c, hi |-> Min((w + k * T) * c + c, N)]
          [] omp.kind = "dynamic" ->
                [lo |-> next_iter, hi |-> Min(next_iter + c, N)]
          [] omp.kind = "guided" ->
                LET q == ((N - next_iter) + T - 1) \div T
                IN  [lo |-> next_iter, hi |-> Min(next_iter + Max(q, c), N)]

\* lines 74-76 with sum declared outside the loop: not reset for the next row
EnterRow_NoReset(wk, i) ==
    [wk EXCEPT !.pc = "inner", !.i = i,
               !.j = csr.row_ptr[i], !.row_end = csr.row_ptr[i + 1]]

\* lines 74-76: the locals of the loop body at the start of row i
EnterRow(wk, i) ==
    [wk EXCEPT !.pc = "inner", !.i = i, !.sum = 0,
               !.j = csr.row_ptr[i], !.row_end = csr.row_ptr[i + 1]]

\* line 78 with j += 2 in place of ++j
AccumulateBody_Stride(wk) ==
    [wk EXCEPT !.sum = FAdd(wk.sum, FMul(csr.values[wk.j], v_input[csr.col_ind[wk.j]])),
               !.j = wk.j + 2]

\* line 79 with = in place of +=
AccumulateBody_Assign(wk) ==
    [wk EXCEPT !.sum = FMul(csr.values[wk.j], v_input[csr.col_ind[wk.j]]),
               !.j = wk.j + 1]

\* line 79: sum += values[j] * v_in[col_ind[j]]
AccumulateBody(wk) ==
    [wk EXCEPT !.sum = FAdd(wk.sum, FMul(csr.values[wk.j], v_input[csr.col_ind[wk.j]])),
               !.j = wk.j + 1]

\* line 83 with += in place of =
StoreBody_Add(c, wk) == [c EXCEPT ![wk.i] = FAdd(c[wk.i], wk.sum)]

\* line 83: c_out[i] = sum
StoreBody(c, wk) == [c EXCEPT ![wk.i] = wk.sum]

InKernel == pc \in {"warmup_run", "timed_run", "kernel_run"}

\* the team starts on the loop
Fork ==
    /\ team' = [w \in 0 .. omp.nthreads - 1 |-> FreshThread]
    /\ next_iter' = 0
    /\ c_entry' = c_output
    /\ writes' = Filled(csr.rows, <<>>)
    /\ acc' = Filled(csr.rows, <<>>)

GetChunk(w) ==
    /\ InKernel
    /\ w \in DOMAIN team
    /\ team[w].pc = "sched"
    /\ LET ch == NextChunk(w)
       IN  IF ch.lo < ch.hi
           THEN /\ team' = [team EXCEPT
                              ![w] = EnterRow([@ EXCEPT !.k = @ + 1, !.hi = ch.hi], ch.lo)]
                /\ next_iter' = IF omp.kind = "static" THEN next_iter ELSE ch.hi
           ELSE /\ team' = [team EXCEPT ![w].pc = "barrier"]
                /\ next_iter' = next_iter
    /\ UNCHANGED <<cerr, runVars, pc, argVars, omp, file, buildVars, v_input, c_output, benchVars,
                   c_entry, writes, acc>>

Accumulate(w) ==
    /\ InKernel
    /\ w \in DOMAIN team
    /\ team[w].pc = "inner"
    /\ team[w].j < team[w].row_end
    /\ csr.col_ind[team[w].j] \in DOMAIN v_input
    /\ team' = [team EXCEPT ![w] = AccumulateBody(@)]
    /\ acc' = [acc EXCEPT ![team[w].i] = Append(@, <<w, team[w].j>>)]
    /\ UNCHANGED <<cerr, runVars, pc, argVars, omp, file, buildVars, v_input, c_output, benchVars,
                   next_iter, c_entry, writes>>

\* line 83 storing through the pointer of the input vector: v_in[i] = sum
StoreRow_IntoInput(w) ==
    /\ InKernel
    /\ w \in DOMAIN team
    /\ team[w].pc = "inner"
    /\ team[w].j >= team[w].row_end
    /\ c_output' = c_output
    /\ v_input' = [k \in DOMAIN v_input |-> IF k = team[w].i THEN team[w].sum ELSE v_input[k]]
    /\ writes' = [writes EXCEPT ![team[w].i] = Append(@, w)]
    /\ team' = [team EXCEPT ![w] = IF @.i + 1 < @.hi
                                   THEN EnterRow(@, @.i + 1)
                                   ELSE [@ EXCEPT !.pc = "sched"]]
    /\ UNCHANGED <<cerr, runVars, pc, argVars, omp, file, buildVars, benchVars,
                   next_iter, c_entry, acc>>

StoreRow(w) ==
    /\ InKernel
    /\ w \in DOMAIN team
    /\ team[w].pc = "inner"
    /\ team[w].j >= team[w].row_end
    /\ c_output' = StoreBody(c_output, team[w])
    /\ writes' = [writes EXCEPT ![team[w].i] = Append(@, w)]
    /\ team' = [team EXCEPT ![w] = IF @.i + 1 < @.hi
                                   THEN EnterRow(@, @.i + 1)
                                   ELSE [@ EXCEPT !.pc = "sched"]]
    /\ UNCHANGED <<cerr, runVars, pc, argVars, omp, file, buildVars, v_input, benchVars,
                   next_iter, c_entry, acc>>

\* the barrier at the end of the region: every thread has run out of chunks
AtBarrier == \A w \in DOMAIN team : team[w].pc = "barrier"

Join ==
    /\ AtBarrier
    /\ team' = Filled(0, 0)
    /\ UNCHANGED <<next_iter, c_entry, writes, acc>>

(***************************************************************************)
(* main, up to the benchmark loop (shared by the two programs).            *)
(***************************************************************************)
\* omp_set_num_threads(n), line 141: the team size of the regions that follow.
\* A value below 1 is outside the routine's contract; the runtime picks a size.
SetNumThreads(n) == IF n > 0 THEN {n} ELSE 1 .. MaxThreads

\* lines 128-142 with the else branch falling back to omp_sched_static
Configure_DefaultStatic ==
    /\ pc = "config"
    /\ \E T \in SetNumThreads(num_threads) :
          omp' = [nthreads |-> T,
                  kind |-> IF schedule_str \in Schedules THEN schedule_str ELSE "static",
                  chunk |-> chunk_size]
    /\ pc' = "read"
    /\ UNCHANGED <<cerr, runVars, argVars, file, buildVars, v_input, c_output, benchVars,
                   kernelVars>>

\* lines 128-142
Configure ==
    /\ pc = "config"
    /\ IF schedule_str \in Schedules
       THEN /\ \E T \in SetNumThreads(num_threads) :
                  omp' = [nthreads |-> T, kind |-> schedule_str, chunk |-> chunk_size]
            /\ pc' = "read"
            /\ cerr' = cerr
       ELSE /\ pc' = "exit1"
            /\ omp' = omp
            /\ cerr' = "Error: invalid scheduling type. Use: static, dynamic, guided"
    /\ UNCHANGED <<runVars, argVars, file, buildVars, v_input, c_output, benchVars, kernelVars>>

\* lines 161-179: the size line, then nnz data lines converted to 0-based triplets
ReadMatrix ==
    /\ pc = "read"
    /\ rows' = file.rows
    /\ cols' = file.cols
    /\ nnz' = file.nnz
    /\ IF Size(file.entries) < file.nnz
       THEN /\ pc' = "exit1"
            /\ cerr' = "Error reading matrix data."
            /\ triplets' = [i \in DOMAIN file.entries |->
                              Triplet(file.entries[i].r - 1, file.entries[i].c - 1,
                                      file.entries[i].v)]
       ELSE /\ pc' = "sort"
            /\ cerr' = cerr
            /\ triplets' = [i \in 0 .. file.nnz - 1 |->
                              Triplet(file.entries[i].r - 1, file.entries[i].c - 1,
                                      file.entries[i].v)]
    /\ UNCHANGED <<runVars, argVars, omp, file, csr, current_row, scan_i, v_input, c_output,
                   benchVars, kernelVars>>

\* lines 182-192
SortTriplets ==
    /\ pc = "sort"
    /\ triplets' \in SortResults(triplets)
    /\ csr' = AllocCsr(rows, cols, nnz)
    /\ current_row' = 0
    /\ scan_i' = 0
    /\ pc' = "scan"
    /\ UNCHANGED <<cerr, runVars, argVars, omp, file, rows, cols, nnz, v_input, c_output,
                   benchVars, kernelVars>>

\* line 199: every row_ptr[current_row] the while loop stores is inside row_ptr
ScanInBounds(A, cur, t, i) == \A k \in cur + 1 .. t[i].row : k \in DOMAIN A.row_ptr

\* lines 193-201 with the ++i of line 193 missing
ScanStep_NoIncrement ==
    /\ pc = "scan"
    /\ scan_i < nnz
    /\ ScanInBounds(csr, current_row, triplets, scan_i)
    /\ LET r == ScanBody(csr, current_row, triplets, scan_i)
       IN  /\ csr' = r[1]
           /\ current_row' = r[2]
    /\ scan_i' = scan_i
    /\ UNCHANGED <<cerr, runVars, pc, argVars, omp, file, rows, cols, nnz, triplets, v_input,
                   c_output, benchVars, kernelVars>>

\* lines 193-201, one iteration
ScanStep ==
    /\ pc = "scan"
    /\ scan_i < nnz
    /\ ScanInBounds(csr, current_row, triplets, scan_i)
    /\ LET r == ScanBody(csr, current_row, triplets, scan_i)
       IN  /\ csr' = r[1]
           /\ current_row' = r[2]
    /\ scan_i' = scan_i + 1
    /\ UNCHANGED <<cerr, runVars, pc, argVars, omp, file, rows, cols, nnz, triplets, v_input, c_output,
                   benchVars, kernelVars>>

\* lines 202-204
Backfill ==
    /\ pc = "scan"
    /\ scan_i >= nnz
    /\ csr' = BackfillBody(csr, current_row, rows, nnz)
    /\ pc' = "vector"
    /\ UNCHANGED <<cerr, runVars, argVars, omp, file, rows, cols, nnz, triplets, current_row, scan_i,
                   v_input, c_output, benchVars, kernelVars>>

\* lines 207-215: v_input from the random generator, c_output zeroed
GenVector ==
    /\ pc = "vector"
    /\ cols >= 0
    /\ rows >= 0
    /\ v_input' \in [0 .. cols - 1 -> VecVals]
    /\ c_output' = Filled(rows, 0)
    /\ pc' = "warmup"
    /\ UNCHANGED <<cerr, runVars, argVars, omp, file, buildVars, benchVars, kernelVars>>

\* a measured duration (the clock is outside the model)
Durations == {1}

(***************************************************************************)
(* The benchmark loop of the OpenMP program, lines 217-243.                *)
(***************************************************************************)
WarmupCall ==
    /\ program = "csrpar"
    /\ pc = "warmup"
    /\ Fork
    /\ pc' = "warmup_run"
    /\ UNCHANGED <<cerr, runVars, argVars, omp, file, buildVars, v_input, c_output, benchVars>>

WarmupReturn ==
    /\ pc = "warmup_run"
    /\ Join
    /\ run' = 0
    /\ times_ms' = Filled(NUM_RUNS, 0)
    /\ calls' = calls + 1
    /\ pc' = "timed"
    /\ UNCHANGED <<cerr, runVars, argVars, omp, file, buildVars, v_input, c_output, csv>>

\* line 224 with run <= NUM_RUNS
TimedCall_Inclusive ==
    /\ program = "csrpar"
    /\ pc = "timed"
    /\ run <= NUM_RUNS
    /\ Fork
    /\ pc' = "timed_run"
    /\ UNCHANGED <<cerr, runVars, argVars, omp, file, buildVars, v_input, c_output, benchVars>>

TimedCall ==
    /\ program = "csrpar"
    /\ pc = "timed"
    /\ run < NUM_RUNS
    /\ Fork
    /\ pc' = "timed_run"
    /\ UNCHANGED <<cerr, runVars, argVars, omp, file, buildVars, v_input, c_output, benchVars>>

TimedReturn ==
    /\ pc = "timed_run"
    /\ Join
    /\ \E d \in Durations : times_ms' = [times_ms EXCEPT ![run] = d]
    /\ run' = run + 1
    /\ calls' = calls + 1
    /\ pc' = "timed"
    /\ UNCHANGED <<cerr, runVars, argVars, omp, file, buildVars, v_input, c_output, csv>>

Output ==
    /\ program = "csrpar"
    /\ pc = "timed"
    /\ run >= NUM_RUNS
    /\ csv' = <<schedule_str, chunk_size, num_threads, times_ms>>
    /\ pc' = "done"
    /\ UNCHANGED <<cerr, runVars, argVars, omp, file, buildVars, v_input, c_output, run, times_ms, calls,
                   kernelVars>>

(***************************************************************************)
(* The benchmark loop of the sequential program, lines 396-419.            *)
(***************************************************************************)
SeqWarmup ==
    /\ program = "csrseq"
    /\ pc = "warmup"
    /\ ReadsInBounds(csr, v_input)
    /\ c_entry' = c_output
    /\ c_output' = spmv_csr_sequential(csr, v_input, c_output)
    /\ run' = 0
    /\ times_ms' = Filled(NUM_RUNS, 0)
    /\ calls' = calls + 1
    /\ pc' = "timed"
    /\ UNCHANGED <<cerr, runVars, argVars, omp, file, buildVars, v_input, csv, team, next_iter, writes, acc>>

SeqTimed ==
    /\ program = "csrseq"
    /\ pc = "timed"
    /\ run < NUM_RUNS
    /\ ReadsInBounds(csr, v_input)
    /\ c_entry' = c_output
    /\ c_output' = spmv_csr_sequential(csr, v_input, c_output)
    /\ \E d \in Durations : times_ms' = [times_ms EXCEPT ![run] = d]
    /\ run' = run + 1
    /\ calls' = calls + 1
    /\ UNCHANGED <<cerr, runVars, pc, argVars, omp, file, buildVars, v_input, csv, team, next_iter,
                   writes, acc>>

SeqOutput ==
    /\ program = "csrseq"
    /\ pc = "timed"
    /\ run >= NUM_RUNS
    /\ csv' = <<times_ms>>
    /\ pc' = "done"
    /\ UNCHANGED <<cerr, runVars, argVars, omp, file, buildVars, v_input, c_output, run, times_ms, calls,
                   kernelVars>>

(***************************************************************************)
(* Input files.                                                            *)
(***************************************************************************)
\* the data lines of a file: 1-based row and column, a value
DataLines(r, c, n) ==
    [0 .. n - 1 -> [r : 1 .. r, c : 1 .. c, v : FileVals]]

\* files whose size line is positive and whose nnz data lines are in range
ValidFiles(maxr, maxc, maxn) ==
    UNION {{[rows |-> r, cols |-> c, nnz |-> n, entries |-> e] : e \in DataLines(r, c, n)} :
              r \in 1 .. maxr, c \in 1 .. maxc, n \in 0 .. maxn}

\* the 2x2 file with the entries (1,1,1), (1,2,2), (2,2,3)
Scenario2x2 ==
    [rows |-> 2, cols |-> 2, nnz |-> 3,
     entries |-> [k \in 0 .. 2 |->
                    CASE k = 0 -> [r |-> 1, c |-> 1, v |-> 1]
                      [] k = 1 -> [r |-> 1, c |-> 2, v |-> 2]
                      [] k = 2 -> [r |-> 2, c |-> 2, v |-> 3]]]

\* files that end before the nnz-th data line
ShortFiles(maxr, maxc, maxn) ==
    {[f EXCEPT !.nnz = f.nnz + 1] : f \in ValidFiles(maxr, maxc, maxn - 1)}

\* the state of either program before main reads its arguments
Blank ==
    /\ omp = [nthreads |-> 1, kind |-> "static", chunk |-> 0]
    /\ rows = 0 /\ cols = 0 /\ nnz = 0
    /\ triplets = Filled(0, 0)
    /\ csr = EmptyCsr
    /\ current_row = 0
    /\ scan_i = 0
    /\ v_input = Filled(0, 0)
    /\ c_output = Filled(0, 0)
    /\ team = Filled(0, 0)
    /\ next_iter = 0
    /\ run = 0
    /\ times_ms = Filled(0, 0)
    /\ calls = 0
    /\ csv = <<>>
    /\ c_entry = Filled(0, 0)
    /\ writes = Filled(0, 0)
    /\ acc = Filled(0, 0)
    /\ cerr = ""

\* the first execution of the program on the file
FirstRun ==
    /\ execution = 1
    /\ v_first = Filled(0, 0)

(***************************************************************************)
(* The two programs on small files.                                        *)
(***************************************************************************)
InitPar ==
    /\ program = "csrpar"
    /\ pc = "config"
    /\ schedule_str \in ScheduleArgs
    /\ chunk_size \in 0 .. MaxChunk
    /\ num_threads \in 0 .. MaxThreads
    /\ file \in ValidFiles(ParRows, MaxCols, ParNnz) \cup ShortFiles(ParRows, MaxCols, ParNnz)
    /\ Blank
    /\ FirstRun

\* the sequential program takes the file name alone
SeqArgs ==
    /\ program = "csrseq"
    /\ pc = "read"
    /\ schedule_str = ""
    /\ chunk_size = 0
    /\ num_threads = 0

Init ==
    \/ InitPar
    \/ /\ SeqArgs
       /\ file \in ValidFiles(ParRows, MaxCols, ParNnz) \cup ShortFiles(ParRows, MaxCols, ParNnz)
       /\ Blank
       /\ FirstRun

Next ==
    \/ Configure
    \/ ReadMatrix
    \/ SortTriplets
    \/ ScanStep
    \/ Backfill
    \/ GenVector
    \/ WarmupCall
    \/ \E w \in 0 .. MaxThreads - 1 : GetChunk(w)
    \/ \E w \in 0 .. MaxThreads - 1 : Accumulate(w)
    \/ \E w \in 0 .. MaxThreads - 1 : StoreRow(w)
    \/ WarmupReturn
    \/ TimedCall
    \/ TimedReturn
    \/ Output
    \/ SeqWarmup
    \/ SeqTimed
    \/ SeqOutput

Spec == Init /\ [][Next]_vars

(***************************************************************************)
(* The two programs under fair scheduling: main goes on while it has a     *)
(* statement to run, and every thread of a team goes on while it has a     *)
(* step to take (the threads run on cores of their own or are scheduled    *)
(* preemptively; nothing in the region blocks but the barrier at its end). *)
(***************************************************************************)
\* a step of main, in either program
MainStep ==
    \/ Configure
    \/ ReadMatrix
    \/ SortTriplets
    \/ ScanStep
    \/ Backfill
    \/ GenVector
    \/ WarmupCall
    \/ WarmupReturn
    \/ TimedCall
    \/ TimedReturn
    \/ Output
    \/ SeqWarmup
    \/ SeqTimed
    \/ SeqOutput

\* a step of thread w of the team
ThreadStep(w) == GetChunk(w) \/ Accumulate(w) \/ StoreRow(w)

Fairness ==
    /\ WF_vars(MainStep)
    /\ \A w \in 0 .. MaxThreads - 1 : WF_vars(ThreadStep(w))

InitFair ==
    /\ \/ /\ program = "csrpar"
          /\ pc = "config"
          /\ schedule_str \in ScheduleArgs
          /\ chunk_size \in 0 .. MaxChunk
          /\ num_threads \in 1 .. MaxThreads
       \/ SeqArgs
    /\ file \in ValidFiles(ParRows, FairCols, ParNnz) \cup ShortFiles(ParRows, FairCols, ParNnz)
    /\ Blank
    /\ FirstRun

SpecFair == InitFair /\ [][Next]_vars /\ Fairness

(***************************************************************************)
(* The sequential program on larger files.                                 *)
(***************************************************************************)
InitSeq ==
    /\ SeqArgs
    /\ file \in ValidFiles(MaxRows, MaxCols, MaxNnz) \cup ShortFiles(MaxRows, MaxCols, MaxNnz)
                   \cup {Scenario2x2}
    /\ Blank
    /\ FirstRun

NextSeq ==
    \/ ReadMatrix
    \/ SortTriplets
    \/ ScanStep
    \/ Backfill
    \/ GenVector
    \/ SeqWarmup
    \/ SeqTimed
    \/ SeqOutput

SpecSeq == InitSeq /\ [][NextSeq]_vars

(***************************************************************************)
(* The kernels on their own: one call of spmv_csr_parallel or of           *)
(* spmv_csr_sequential on any CsrMatrix that satisfies the invariants of   *)
(* the type, any vector of length cols and any contents of the buffer.     *)
(***************************************************************************)
\* what the kernels rely on in a CsrMatrix (lines 24-31 and the loops that read it)
CsrInvariant(A) ==
    /\ DOMAIN A.row_ptr = 0 .. A.rows
    /\ DOMAIN A.col_ind = 0 .. A.nnz - 1
    /\ DOMAIN A.values = 0 .. A.nnz - 1
    /\ A.row_ptr[0] = 0
    /\ A.row_ptr[A.rows] = A.nnz
    /\ \A i \in 0 .. A.rows - 1 : A.row_ptr[i] <= A.row_ptr[i + 1]
    /\ \A k \in 0 .. A.nnz - 1 : 0 <= A.col_ind[k] /\ A.col_ind[k] < A.cols
    /\ \A i \in 0 .. A.rows - 1 : \A k \in A.row_ptr[i] .. A.row_ptr[i + 1] - 2 :
           A.col_ind[k] <= A.col_ind[k + 1]

ValidCsr(maxr, maxc, maxn) ==
    UNION {{A \in [rows : {r}, cols : {c}, nnz : {n},
                   row_ptr : [0 .. r -> 0 .. n],
                   col_ind : [0 .. n - 1 -> 0 .. c - 1],
                   values : [0 .. n - 1 -> FileVals]] : CsrInvariant(A)} :
              r \in 1 .. maxr, c \in 1 .. maxc, n \in 0 .. maxn}

InitKernel ==
    /\ program = "kernel"
    /\ pc = "kernel"
    /\ csr \in ValidCsr(KernelRows, MaxCols, KernelNnz)
    /\ rows = csr.rows /\ cols = csr.cols /\ nnz = csr.nnz
    /\ omp \in [nthreads : 1 .. MaxThreads, kind : Schedules, chunk : 0 .. MaxChunk]
    /\ schedule_str = omp.kind
    /\ chunk_size = omp.chunk
    /\ num_threads = omp.nthreads
    /\ v_input \in [0 .. cols - 1 -> KernelVecVals]
    /\ c_output \in {Filled(rows, b) : b \in BufVals}
    /\ file = [rows |-> rows, cols |-> cols, nnz |-> nnz, entries |-> Filled(0, 0)]
    /\ triplets = Filled(0, 0)
    /\ current_row = 0
    /\ scan_i = 0
    /\ team = Filled(0, 0)
    /\ next_iter = 0
    /\ run = 0
    /\ times_ms = Filled(0, 0)
    /\ calls = 0
    /\ csv = <<>>
    /\ c_entry = Filled(0, 0)
    /\ writes = Filled(0, 0)
    /\ acc = Filled(0, 0)
    /\ cerr = ""
    /\ execution = 1
    /\ v_first = Filled(0, 0)

ParCall ==
    /\ pc = "kernel"
    /\ Fork
    /\ pc' = "kernel_run"
    /\ UNCHANGED <<cerr, runVars, argVars, omp, file, buildVars, v_input, c_output, benchVars>>

ParReturn ==
    /\ pc = "kernel_run"
    /\ Join
    /\ calls' = calls + 1
    /\ pc' = "par_ret"
    /\ UNCHANGED <<cerr, runVars, argVars, omp, file, buildVars, v_input, c_output, run, times_ms, csv>>

SeqCall ==
    /\ pc = "kernel"
    /\ c_entry' = c_output
    /\ c_output' = spmv_csr_sequential(csr, v_input, c_output)
    /\ calls' = calls + 1
    /\ pc' = "seq_ret"
    /\ UNCHANGED <<cerr, runVars, argVars, omp, file, buildVars, v_input, run, times_ms, csv,
                   team, next_iter, writes, acc>>

NextKernel ==
    \/ ParCall
    \/ \E w \in 0 .. MaxThreads - 1 : GetChunk(w)
    \/ \E w \in 0 .. MaxThreads - 1 : Accumulate(w)
    \/ \E w \in 0 .. MaxThreads - 1 : StoreRow(w)
    \/ ParReturn
    \/ SeqCall

SpecKernel == InitKernel /\ [][NextKernel]_vars

(***************************************************************************)
(* The two programs on files nobody checked: a size line with rows or cols *)
(* down to -1, data lines whose indices leave the matrix on either side.   *)
(* main does not look at the values it reads, so the construction and the  *)
(* kernels go on with them.  A store beyond row_ptr and a read beyond v    *)
(* are undefined behaviour: the process is killed, or the access falls on  *)
(* whatever lies there.  A vector of negative size throws                  *)
(* std::length_error, which nothing catches.                               *)
(***************************************************************************)
\* the data lines of an unchecked file: 1-based indices from 0 to past the matrix
AnyLines(r, c, n) ==
    [0 .. n - 1 -> [r : 0 .. Max(r, 0) + 2, c : 0 .. Max(c, 0) + 1, v : FileVals]]

AnyFiles(maxd, maxn) ==
    UNION {{[rows |-> r, cols |-> c, nnz |-> n, entries |-> e] : e \in AnyLines(r, c, n)} :
              r \in -1 .. maxd, c \in -1 .. maxd, n \in 0 .. maxn}

\* lines 193-201 when line 199 stores beyond row_ptr.  The stores inside
\* row_ptr are made; the others kill the process, or fall outside the
\* program's vectors, or on a cell of col_ind (allocated right after row_ptr).
ScanOutOfBounds ==
    /\ pc = "scan"
    /\ scan_i < nnz
    /\ ~ScanInBounds(csr, current_row, triplets, scan_i)
    /\ LET r == ScanBody(csr, current_row, triplets, scan_i)
       IN  \/ /\ pc' = "crash"
              /\ csr' = r[1]
              /\ current_row' = r[2]
              /\ scan_i' = scan_i
           \/ /\ pc' = pc
              /\ \/ csr' = r[1]
                 \/ \E m \in DOMAIN csr.col_ind : csr' = [r[1] EXCEPT !.col_ind[m] = scan_i]
              /\ current_row' = r[2]
              /\ scan_i' = scan_i + 1
    /\ UNCHANGED <<cerr, runVars, argVars, omp, file, rows, cols, nnz, triplets, v_input,
                   c_output, benchVars, kernelVars>>

\* lines 207 and 215: vector<double>(n) with n < 0 throws, and main has no handler
GenVectorThrows ==
    /\ pc = "vector"
    /\ (cols < 0 \/ rows < 0)
    /\ pc' = "terminate"
    /\ cerr' = "terminate called after throwing an instance of 'std::length_error'"
    /\ UNCHANGED <<runVars, argVars, omp, file, buildVars, v_input, c_output, benchVars,
                   kernelVars>>

\* the cells beyond v that col_ind points to
Beyond(A, v) == {A.col_ind[k] : k \in DOMAIN A.col_ind} \ DOMAIN v

\* v as the loops find it: its own cells, and some contents in the cells beyond
Overread(A, v) ==
    {[x \in DOMAIN v \cup Beyond(A, v) |-> IF x \in DOMAIN v THEN v[x] ELSE g[x]] :
        g \in [Beyond(A, v) -> GarbageVals]}

\* line 397 when the kernel reads beyond v: killed, or run on what lies there
SeqWarmupOutOfBounds ==
    /\ program = "csrseq"
    /\ pc = "warmup"
    /\ ~ReadsInBounds(csr, v_input)
    /\ c_entry' = c_output
    /\ \/ /\ pc' = "crash"
          /\ UNCHANGED <<c_output, run, times_ms, calls>>
       \/ /\ \E u \in Overread(csr, v_input) :
                 c_output' = spmv_csr_sequential(csr, u, c_output)
          /\ run' = 0
          /\ times_ms' = Filled(NUM_RUNS, 0)
          /\ calls' = calls + 1
          /\ pc' = "timed"
    /\ UNCHANGED <<cerr, runVars, argVars, omp, file, buildVars, v_input, csv, team, next_iter,
                   writes, acc>>

\* lines 403-409 when the kernel reads beyond v
SeqTimedOutOfBounds ==
    /\ program = "csrseq"
    /\ pc = "timed"
    /\ run < NUM_RUNS
    /\ ~ReadsInBounds(csr, v_input)
    /\ c_entry' = c_output
    /\ \/ /\ pc' = "crash"
          /\ UNCHANGED <<c_output, run, times_ms, calls>>
       \/ /\ \E u \in Overread(csr, v_input) :
                 c_output' = spmv_csr_sequential(csr, u, c_output)
          /\ \E d \in Durations : times_ms' = [times_ms EXCEPT ![run] = d]
          /\ run' = run + 1
          /\ calls' = calls + 1
          /\ pc' = pc
    /\ UNCHANGED <<cerr, runVars, argVars, omp, file, buildVars, v_input, csv, team, next_iter,
                   writes, acc>>

\* line 79 when col_ind[j] is beyond v_in
AccumulateOutOfBounds(w) ==
    /\ InKernel
    /\ w \in DOMAIN team
    /\ team[w].pc = "inner"
    /\ team[w].j < team[w].row_end
    /\ csr.col_ind[team[w].j] \notin DOMAIN v_input
    /\ \/ /\ pc' = "crash"
          /\ UNCHANGED <<team, acc>>
       \/ /\ pc' = pc
          /\ \E g \in GarbageVals :
                team' = [team EXCEPT
                           ![w].sum = FAdd(team[w].sum, FMul(csr.values[team[w].j], g)),
                           ![w].j = team[w].j + 1]
          /\ acc' = [acc EXCEPT ![team[w].i] = Append(@, <<w, team[w].j>>)]
    /\ UNCHANGED <<cerr, runVars, argVars, omp, file, buildVars, v_input, c_output, benchVars,
                   next_iter, c_entry, writes>>

InitAnyFile ==
    \/ /\ program = "csrpar"
       /\ pc = "config"
       /\ schedule_str \in Schedules
       /\ chunk_size \in 0 .. 1
       /\ num_threads \in 1 .. MaxThreads
       /\ file \in AnyFiles(AnyDim, AnyNnz - 1)
       /\ Blank
       /\ FirstRun
    \/ /\ SeqArgs
       /\ file \in AnyFiles(AnyDim, AnyNnz)
       /\ Blank
       /\ FirstRun

NextAnyFile ==
    \/ Next
    \/ ScanOutOfBounds
    \/ GenVectorThrows
    \/ SeqWarmupOutOfBounds
    \/ SeqTimedOutOfBounds
    \/ \E w \in 0 .. MaxThreads - 1 : AccumulateOutOfBounds(w)

SpecAnyFile == InitAnyFile /\ [][NextAnyFile]_vars

(***************************************************************************)
(* Two executions of a program, one after the other, on the same file and  *)
(* with the same arguments.  The second starts from the first line of main *)
(* with nothing kept of the first but what the model records of it.        *)
(***************************************************************************)
Rerun ==
    /\ pc = "done"
    /\ execution = 1
    /\ execution' = 2
    /\ v_first' = v_input
    /\ pc' = IF program = "csrpar" THEN "config" ELSE "read"
    /\ omp' = [nthreads |-> 1, kind |-> "static", chunk |-> 0]
    /\ rows' = 0 /\ cols' = 0 /\ nnz' = 0
    /\ triplets' = Filled(0, 0)
    /\ csr' = EmptyCsr
    /\ current_row' = 0
    /\ scan_i' = 0
    /\ v_input' = Filled(0, 0)
    /\ c_output' = Filled(0, 0)
    /\ team' = Filled(0, 0)
    /\ next_iter' = 0
    /\ run' = 0
    /\ times_ms' = Filled(0, 0)
    /\ calls' = 0
    /\ csv' = <<>>
    /\ c_entry' = Filled(0, 0)
    /\ writes' = Filled(0, 0)
    /\ acc' = Filled(0, 0)
    /\ cerr' = ""
    /\ UNCHANGED <<argVars, file>>

InitRerun ==
    /\ \/ /\ program = "csrpar"
          /\ pc = "config"
          /\ schedule_str \in Schedules
          /\ chunk_size \in 0 .. MaxChunk
          /\ num_threads \in 1 .. MaxThreads
       \/ SeqArgs
    /\ file \in ValidFiles(1, MaxCols, ParNnz)
    /\ Blank
    /\ FirstRun

NextRerun ==
    \/ Next
    \/ Rerun

SpecRerun == InitRerun /\ [][NextRerun]_vars

(***************************************************************************)
(* Properties of the kernels (SpecKernel).                                 *)
(***************************************************************************)
\* C1: when spmv_csr_parallel returns, whatever the team size, the schedule, the
\* chunk size and the interleaving of the threads, c holds exactly the vector
\* spmv_csr_sequential computes from the same matrix, vector and buffer.
C1_ParallelEqualsSequential ==
    pc = "par_ret" => c_output = spmv_csr_sequential(csr, v_input, c_entry)

\* a two-thread dynamic run on a matrix with two nonzeros in one row has
\* returned, and both threads stored a row
C1_Witness ==
    /\ pc = "par_ret"
    /\ omp.nthreads = 2
    /\ omp.kind = "dynamic"
    /\ csr.rows = 3
    /\ csr.row_ptr[1] = 2
    /\ c_entry # c_output
    /\ \E i, k \in 0 .. csr.rows - 1 : writes[i] = <<0>> /\ writes[k] = <<1>>

\* the threads working on row i
Processing(i) == {w \in DOMAIN team : team[w].pc = "inner" /\ team[w].i = i}

\* C2 (state part): in one invocation no row is taken twice, whether by two
\* threads or by one: a thread at work on row i and the stores of c[i] number at
\* most one; at the return every c[i] has been stored exactly once; and a slot
\* not stored yet still holds what it held at the call.
C2_State ==
    /\ InKernel =>
          \A i \in 0 .. csr.rows - 1 :
              /\ Cardinality(Processing(i)) + Len(writes[i]) <= 1
              /\ Len(writes[i]) = 0 => c_output[i] = c_entry[i]
    /\ pc = "par_ret" => \A i \in 0 .. csr.rows - 1 : Len(writes[i]) = 1

\* C2 (step part): a step of a thread changes, of the program's shared data,
\* at most the slot c[i] of the row i the thread is on; the matrix and v stay.
C2_Step ==
    InKernel /\ pc' = pc =>
        /\ csr' = csr
        /\ v_input' = v_input
        /\ \A i \in DOMAIN c_output :
              c_output'[i] # c_output[i] =>
                  \E w \in Processing(i) : team'[w] # team[w]

\* C2: every row index in [0, rows) is processed by exactly one thread exactly
\* once, every c[i] is written exactly once, no two threads write the same slot,
\* and the threads write no other shared variable of the program.
C2_EachRowOnce == [](C2_State) /\ [][C2_Step]_vars

\* a guided run of two threads in which each thread stored one or more rows
C2_Witness ==
    /\ pc = "par_ret"
    /\ omp.kind = "guided"
    /\ omp.nthreads = 2
    /\ csr.rows = 3
    /\ \E i, k \in 0 .. csr.rows - 1 : writes[i] = <<0>> /\ writes[k] = <<1>>
    /\ \A i \in 0 .. csr.rows - 1 : Len(writes[i]) = 1

(***************************************************************************)
(* Properties of the COO -> CSR construction (SpecSeq).                    *)
(***************************************************************************)
\* the construction has run to its end
Built == pc \in {"vector", "warmup", "warmup_run", "timed", "timed_run", "done"}

\* the triplets of the input, 0-based, in the order of the file
InputTriplets ==
    [k \in 0 .. file.nnz - 1 |->
        Triplet(file.entries[k].r - 1, file.entries[k].c - 1, file.entries[k].v)]

\* the positions of row i in col_ind and values
RowRange(A, i) == A.row_ptr[i] .. A.row_ptr[i + 1] - 1

\* C3: the construction leaves a row_ptr of length rows + 1 with
\* row_ptr[0] = 0, row_ptr[rows] = nnz and row_ptr[i] <= row_ptr[i+1] for
\* every row i, the empty triplet set included.
C3_RowPtrShape ==
    Built =>
        /\ DOMAIN csr.row_ptr = 0 .. file.rows
        /\ csr.row_ptr[0] = 0
        /\ csr.row_ptr[file.rows] = file.nnz
        /\ \A i \in 0 .. file.rows - 1 : csr.row_ptr[i] <= csr.row_ptr[i + 1]

\* three triplets in rows 0 and 2 of three, the row between them empty
C3_Witness ==
    /\ pc = "vector"
    /\ file.rows = 3
    /\ file.nnz = 3
    /\ csr.row_ptr[1] = 1
    /\ csr.row_ptr[2] = 1
    /\ csr.row_ptr[3] = 3

\* C4: positions row_ptr[i] .. row_ptr[i+1]-1 of col_ind/values hold exactly
\* the (col, value) pairs of the input triplets of row i, as a multiset, and
\* row_ptr[i] is the number of input triplets whose row is below i.
C4_RowContents ==
    Built =>
        LET T == InputTriplets
            pairs == {<<T[k].col, T[k].val>> : k \in DOMAIN T}
                     \cup {<<csr.col_ind[k], csr.values[k]>> : k \in DOMAIN csr.col_ind}
        IN  \A i \in 0 .. file.rows - 1 :
                /\ csr.row_ptr[i] = Cardinality({k \in DOMAIN T : T[k].row < i})
                /\ \A p \in pairs :
                      Cardinality({k \in RowRange(csr, i) :
                                      csr.col_ind[k] = p[1] /\ csr.values[k] = p[2]})
                      = Cardinality({k \in DOMAIN T :
                                      T[k].row = i /\ T[k].col = p[1] /\ T[k].val = p[2]})

\* a file whose triplets come row 2 first, then row 0, the row between empty
C4_Witness ==
    /\ pc = "vector"
    /\ file.rows = 3
    /\ file.nnz = 3
    /\ file.entries[0].r = 3
    /\ file.entries[1].r = 1
    /\ file.entries[2].r = 3
    /\ file.entries[0].v # file.entries[2].v
    /\ csr.row_ptr[1] = 1
    /\ csr.row_ptr[2] = 1

\* C5: within every row of the built matrix the column indices ascend,
\* whatever the order of the triplets in the input.
C5_ColumnsAscend ==
    Built =>
        \A i \in 0 .. file.rows - 1 :
            \A k \in RowRange(csr, i) :
                k + 1 \in RowRange(csr, i) => csr.col_ind[k] <= csr.col_ind[k + 1]

\* a row given with its columns in descending order in the file
C5_Witness ==
    /\ pc = "vector"
    /\ file.nnz = 2
    /\ file.entries[0].r = file.entries[1].r
    /\ file.entries[0].c = 2
    /\ file.entries[1].c = 1
    /\ csr.col_ind[0] = 0
    /\ csr.col_ind[1] = 1

(***************************************************************************)
(* Properties of spmv_csr_sequential and of the two steps together         *)
(* (SpecSeq).                                                              *)
(***************************************************************************)
\* the rounded sum of values[k] * v[col_ind[k]] for k from lo to hi - 1, taken
\* in ascending k from 0.0
RECURSIVE AscSum(_, _, _, _)
AscSum(A, v, lo, hi) ==
    IF hi <= lo THEN 0
    ELSE FAdd(AscSum(A, v, lo, hi - 1), FMul(A.values[hi - 1], v[A.col_ind[hi - 1]]))

\* spmv_csr_sequential has returned one or more times
SeqReturned == (program = "csrseq" /\ calls >= 1) \/ pc = "seq_ret"

\* C6: spmv_csr_sequential sets every c[i], i in [0, rows), to the sum over k
\* from row_ptr[i] to row_ptr[i+1]-1, in ascending k, of values[k] * v[col_ind[k]].
C6_SequentialRowSums ==
    SeqReturned =>
        /\ DOMAIN c_output = 0 .. csr.rows - 1
        /\ \A i \in 0 .. csr.rows - 1 :
              c_output[i] = AscSum(csr, v_input, csr.row_ptr[i], csr.row_ptr[i + 1])

\* rows = cols = 1, the value 5.0 and v = [2.0] give c = [10.0]
C6_Witness ==
    /\ SeqReturned
    /\ csr.rows = 1 /\ csr.cols = 1 /\ csr.nnz = 1
    /\ csr.values[0] = 5
    /\ v_input[0] = 2
    /\ c_output[0] = 10

\* the orders in which the input triplets of row i can be taken with their
\* columns ascending (triplets of one (row, col) in either order)
ColumnOrders(T, i) ==
    LET K == {k \in DOMAIN T : T[k].row = i}
        n == Cardinality(K)
    IN  {o \in [0 .. n - 1 -> K] :
            /\ \A a, b \in 0 .. n - 1 : a # b => o[a] # o[b]
            /\ \A a, b \in 0 .. n - 1 : a < b => T[o[a]].col <= T[o[b]].col}

\* the rounded sum of val * v[col] over the triplets T[o[0]], ..., T[o[n-1]]
RECURSIVE TripletSum(_, _, _, _)
TripletSum(T, v, o, n) ==
    IF n = 0 THEN 0
    ELSE FAdd(TripletSum(T, v, o, n - 1), FMul(T[o[n - 1]].val, v[T[o[n - 1]].col]))

\* C7: built from the triplets T and multiplied, the matrix has exactly |T|
\* entries and c[i] is the sum of t.val * v[t.col] over all the triplets of T
\* in row i, duplicates of one (row, col) each adding their own term; the two
\* scenarios of the specification give c = [3, 3] and c = [2].
C7_EndToEnd ==
    (program = "csrseq" /\ calls >= 1) =>
        LET T == InputTriplets
        IN  /\ csr.nnz = Size(T)
            /\ Size(csr.col_ind) = Size(T)
            /\ Size(csr.values) = Size(T)
            /\ \A i \in 0 .. file.rows - 1 :
                  \E o \in ColumnOrders(T, i) :
                      c_output[i] = TripletSum(T, v_input, o, Size(o))
            /\ (file = Scenario2x2 /\ v_input[0] = 1 /\ v_input[1] = 1)
                   => (c_output[0] = 3 /\ c_output[1] = 3)
            /\ (/\ file.rows = 1 /\ file.cols = 1 /\ file.nnz = 2
                /\ file.entries[0].v = 1 /\ file.entries[1].v = 1
                /\ v_input[0] = 1)
                   => c_output[0] = 2

\* the 2x2 scenario has been multiplied by v = [1, 1]
C7_Witness ==
    /\ program = "csrseq"
    /\ calls >= 1
    /\ file = Scenario2x2
    /\ v_input[0] = 1
    /\ v_input[1] = 1
    /\ c_output[0] = 3
    /\ c_output[1] = 3

\* the triplet (0,0,1) twice on a 1x1 matrix has been multiplied by v = [1]
C7_WitnessDuplicate ==
    /\ program = "csrseq"
    /\ calls >= 1
    /\ file.rows = 1 /\ file.cols = 1 /\ file.nnz = 2
    /\ file.entries[0].v = 1 /\ file.entries[1].v = 1
    /\ v_input[0] = 1
    /\ c_output[0] = 2

(***************************************************************************)
(* Properties of a kernel call and of the benchmark loop.                  *)
(***************************************************************************)
\* a kernel has returned and none is running
KernelReturned ==
    \/ pc \in {"par_ret", "seq_ret"}
    \/ program \in {"csrpar", "csrseq"} /\ calls >= 1 /\ ~InKernel

\* C8: after a call of either kernel, c[i] = 0.0 for every row i without a
\* nonzero, whatever the other rows hold and whatever c[i] held before.
C8_EmptyRowsZero ==
    KernelReturned =>
        \A i \in 0 .. csr.rows - 1 :
            csr.row_ptr[i] = csr.row_ptr[i + 1] => c_output[i] = 0

\* the parallel kernel has returned on a matrix whose middle row is empty,
\* between two rows that are not, called on a buffer that held 7 everywhere
C8_Witness ==
    /\ pc = "par_ret"
    /\ csr.rows = 3
    /\ csr.row_ptr[1] = 1
    /\ csr.row_ptr[2] = 1
    /\ csr.row_ptr[3] = 2
    /\ c_entry[1] = 7
    /\ c_output[0] # 0
    /\ c_output[1] = 0
    /\ c_output[2] # 0

\* C9: every call of a kernel after the first, on the unchanged matrix and
\* vector and on the buffer the call before left, returns with the buffer as
\* it found it: the warm-up call and each timed call leave the same vector.
C9_Idempotent == (calls >= 2 /\ ~InKernel) => c_output = c_entry

\* the OpenMP program has made its 11 calls with two threads and a result
\* that is not zero
C9_Witness ==
    /\ program = "csrpar"
    /\ pc = "done"
    /\ calls = NUM_RUNS + 1
    /\ omp.nthreads = 2
    /\ \E i \in DOMAIN c_output : c_output[i] # 0

\* C10, as claimed: with num_threads <= 0 the OpenMP program starts no kernel
\* call, completes none and prints no timing.
C10_ThreadsRejected ==
    (program = "csrpar" /\ num_threads <= 0) =>
        /\ ~InKernel
        /\ calls = 0
        /\ csv = <<>>

(***************************************************************************)
(* Rejection of the arguments and of the input.                            *)
(***************************************************************************)
\* C11: with a schedule name other than static, dynamic or guided the OpenMP
\* program stops with the error message before the file is read: it never
\* leaves the configuration step except to return 1, nothing is read or
\* built, no thread runs, no call is made and no timing is stored or printed.
C11_ScheduleRejected ==
    (program = "csrpar" /\ schedule_str \notin Schedules) =>
        /\ pc \in {"config", "exit1"}
        /\ pc = "exit1" => cerr = "Error: invalid scheduling type. Use: static, dynamic, guided"
        /\ rows = 0 /\ cols = 0 /\ nnz = 0
        /\ Size(triplets) = 0
        /\ csr = EmptyCsr
        /\ Size(team) = 0
        /\ Size(writes) = 0
        /\ Size(acc) = 0
        /\ calls = 0
        /\ Size(times_ms) = 0
        /\ csv = <<>>

\* "bogus" was given with a file that holds a nonzero, and main has returned 1
C11_Witness ==
    /\ program = "csrpar"
    /\ schedule_str = "bogus"
    /\ pc = "exit1"
    /\ cerr # ""
    /\ file.nnz = 1
    /\ num_threads = 2

\* the file breaks what the construction is told to check: a dimension that is
\* not positive, or a data line whose 0-based row or column is outside the matrix
Malformed(f) ==
    \/ f.rows <= 0
    \/ f.cols <= 0
    \/ \E k \in DOMAIN f.entries :
          /\ k < f.nnz
          /\ \/ f.entries[k].r - 1 \notin 0 .. f.rows - 1
             \/ f.entries[k].c - 1 \notin 0 .. f.cols - 1

\* C12, as claimed: on a malformed file the construction never runs to its
\* end, no kernel is called, and the program is not killed either: it stops
\* with an error of its own.
C12_MalformedRejected ==
    Malformed(file) =>
        /\ ~Built
        /\ ~InKernel
        /\ calls = 0
        /\ pc \notin {"crash", "terminate"}

\* a kernel has been called on the matrix
PassedToKernel == InKernel \/ calls >= 1

\* C13, as claimed: whenever a kernel is called on the built matrix, every
\* col_ind[k] is in [0, cols) and every v[col_ind[k]] the kernel reads is a
\* cell of v.
C13_ColumnsInRange ==
    PassedToKernel =>
        /\ \A k \in DOMAIN csr.col_ind : 0 <= csr.col_ind[k] /\ csr.col_ind[k] < csr.cols
        /\ ReadsInBounds(csr, v_input)

(***************************************************************************)
(* Properties of the benchmark loop (Spec).                                *)
(***************************************************************************)
\* every row of the matrix has been stored exactly once by the last call
AllRowsWritten == \A i \in 0 .. csr.rows - 1 : Len(writes[i]) = 1

\* the durations recorded so far: one in each of the first n cells of times_ms,
\* the other cells as vector<double>(NUM_RUNS) left them
Recorded(n) ==
    /\ DOMAIN times_ms = 0 .. NUM_RUNS - 1
    /\ \A k \in 0 .. NUM_RUNS - 1 :
          IF k < n THEN times_ms[k] \in Durations ELSE times_ms[k] = 0

\* C14 (state part): no call has returned before the warm-up; after it, the
\* calls returned are the warm-up and one timed call per duration recorded, in
\* run order; at the end 11 calls have returned and 10 durations are recorded;
\* outside a call of the parallel kernel no thread of a region is left and
\* the last call stored every row.
C14_State ==
    program \in {"csrpar", "csrseq"} =>
        /\ pc \in {"config", "read", "sort", "scan", "vector", "warmup", "warmup_run", "exit1"}
              => calls = 0
        /\ pc \in {"timed", "timed_run"} => (calls = run + 1 /\ run <= NUM_RUNS /\ Recorded(run))
        /\ pc = "timed_run" => run < NUM_RUNS
        /\ pc = "done" =>
              /\ calls = NUM_RUNS + 1
              /\ run = NUM_RUNS
              /\ Recorded(NUM_RUNS)
              /\ csv[Len(csv)] = times_ms
        /\ (program = "csrpar" /\ ~InKernel) =>
              /\ Size(team) = 0
              /\ calls >= 1 => AllRowsWritten

\* C14 (step part): calls return one at a time; the parallel kernel returns
\* only with every thread at the barrier and every row stored; a call starts
\* only when none is running; a timed call records its one duration in
\* times_ms[run] when it returns.
C14_Step ==
    /\ calls' \in {calls, calls + 1}
    /\ (program = "csrpar" /\ calls' = calls + 1) =>
          /\ InKernel /\ ~InKernel'
          /\ AtBarrier
          /\ AllRowsWritten
    /\ (~InKernel /\ InKernel') => Size(team) = 0
    /\ (pc \in {"timed", "timed_run"} /\ calls' = calls + 1) =>
          /\ run' = run + 1
          /\ times_ms' = [times_ms EXCEPT ![run] = times_ms'[run]]
          /\ times_ms'[run] \in Durations
    /\ (pc \in {"timed", "timed_run"} /\ calls' = calls) => times_ms' = times_ms

\* C14: both programs call the kernel exactly 11 times, one after the other:
\* the warm-up, then exactly 10 timed calls that each record one duration, in
\* run order; no call starts before the one before has returned with all of
\* its rows written.
C14_ElevenCalls == [](C14_State) /\ [][C14_Step]_vars

\* the OpenMP program is done after dynamic runs of two threads on two rows
C14_Witness ==
    /\ program = "csrpar"
    /\ pc = "done"
    /\ calls = NUM_RUNS + 1
    /\ omp.kind = "dynamic"
    /\ omp.nthreads = 2
    /\ csr.rows = 2
    /\ writes[0] # writes[1]
    /\ Recorded(NUM_RUNS)

\* the vector has been generated: matrix and vector are what the calls get
Generated == pc \in {"warmup", "warmup_run", "timed", "timed_run", "done"}

\* C15 (state part): from the end of the construction on, the matrix is the
\* one the construction left, with the dimensions and the nonzero count of the
\* file.
C15_State ==
    (Built /\ program \in {"csrpar", "csrseq"}) =>
        /\ csr.rows = file.rows /\ csr.cols = file.cols /\ csr.nnz = file.nnz
        /\ rows = file.rows /\ cols = file.cols /\ nnz = file.nnz
        /\ DOMAIN csr.row_ptr = 0 .. file.rows
        /\ DOMAIN csr.col_ind = 0 .. file.nnz - 1
        /\ DOMAIN csr.values = 0 .. file.nnz - 1
        /\ Generated => DOMAIN v_input = 0 .. file.cols - 1

\* C15 (step part): once the matrix is built no step changes it, once v is
\* generated no step changes v, and a step of a kernel call, sequential or
\* parallel, changes none of the program's data but c.
C15_Step ==
    /\ Built => csr' = csr
    /\ Generated => v_input' = v_input
    /\ (InKernel \/ calls' # calls) =>
          /\ csr' = csr
          /\ v_input' = v_input
          /\ <<rows, cols, nnz, triplets, current_row, scan_i>>' =
                <<rows, cols, nnz, triplets, current_row, scan_i>>
          /\ <<file, omp, csv, cerr>>' = <<file, omp, csv, cerr>>
          /\ argVars' = argVars

\* C15: once built, the CsrMatrix and the vector v are never modified: every
\* kernel call and the whole warm-up and timed loop leave them as they were;
\* the only variable a kernel writes is c.
C15_Frame == [](C15_State) /\ [][C15_Step]_vars

\* the OpenMP program is done after guided runs that changed c, matrix intact
C15_Witness ==
    /\ program = "csrpar"
    /\ pc = "done"
    /\ omp.kind = "guided"
    /\ csr.nnz = 1
    /\ csr.values[0] = 5
    /\ c_output # Filled(rows, 0)
    /\ csr.col_ind[0] = file.entries[0].c - 1

(***************************************************************************)
(* Reproducibility (SpecRerun).                                            *)
(***************************************************************************)
\* C16, as claimed: the second execution of a program on a file generates the
\* input vector the first execution generated.
C16_FixedSeed == (execution = 2 /\ Generated) => v_input = v_first

(***************************************************************************)
(* Order of accumulation in spmv_csr_parallel (SpecKernel).                *)
(***************************************************************************)
\* C17 (row i): the products added to the sum of row i so far are those of
\* k = row_ptr[i], row_ptr[i] + 1, ... in this order, all added by one thread;
\* a thread at work on the row is that thread, is at the next k and holds the
\* sum of the products so far taken in ascending k; the thread that stores
\* c[i] is that thread again, after the last k of the row.
C17_Row(i) ==
    LET a == acc[i]
        first == csr.row_ptr[i]
        len == csr.row_ptr[i + 1] - csr.row_ptr[i]
    IN  /\ Len(a) <= len
        /\ \A n \in 1 .. Len(a) : a[n][2] = first + n - 1
        /\ \A n, m \in 1 .. Len(a) : a[n][1] = a[m][1]
        /\ \A w \in Processing(i) :
              /\ \A n \in 1 .. Len(a) : a[n][1] = w
              /\ team[w].j = first + Len(a)
              /\ team[w].sum = AscSum(csr, v_input, first, team[w].j)
        /\ \A n \in 1 .. Len(writes[i]) :
              /\ Len(a) = len
              /\ \A m \in 1 .. Len(a) : a[m][1] = writes[i][n]
              /\ c_output[i] = AscSum(csr, v_input, first, first + len)

\* C17: under every schedule, chunk size and team size, the products of one
\* row are accumulated by a single thread in ascending k from row_ptr[i] to
\* row_ptr[i+1]-1, and no other thread adds to the sum of that row.
C17_RowOrder ==
    (pc \in {"kernel_run", "par_ret"}) =>
        /\ \A i \in 0 .. csr.rows - 1 : C17_Row(i)
        /\ pc = "par_ret" =>
              \A i \in 0 .. csr.rows - 1 : Len(acc[i]) = csr.row_ptr[i + 1] - csr.row_ptr[i]

\* a static run of two threads has returned: one thread summed the two
\* products of its row in the order k = 0, 1, the other stored another row
C17_Witness ==
    /\ pc = "par_ret"
    /\ omp.kind = "static"
    /\ omp.nthreads = 2
    /\ \E i, k \in 0 .. csr.rows - 1 : \E w, x \in 0 .. 1 :
          /\ w # x
          /\ acc[i] = <<(<<w, 0>>), (<<w, 1>>)>>
          /\ writes[i] = <<w>>
          /\ writes[k] = <<x>>
          /\ csr.values[0] # csr.values[1]

(***************************************************************************)
(* Termination (SpecFair).                                                 *)
(***************************************************************************)
\* the arguments are accepted, the team has a thread or more, and the file
\* holds its nnz data lines
ValidRun ==
    /\ program = "csrseq" \/ (schedule_str \in Schedules /\ num_threads >= 1)
    /\ Size(file.entries) >= file.nnz

\* C18: on every valid input and configuration with one thread or more, under
\* fair scheduling, the scan of the construction ends, every call of the
\* parallel kernel returns with every row written, and the program reaches
\* the end of the 10th timed run.
C18_Terminates ==
    /\ (ValidRun /\ pc = "scan") ~> (pc = "vector")
    /\ (ValidRun /\ InKernel) ~> (program = "csrpar" /\ ~InKernel /\ calls >= 1 /\ AllRowsWritten)
    /\ (ValidRun /\ pc \in {"config", "read"}) ~> (pc = "done" /\ run = NUM_RUNS)

\* the OpenMP program has ended its 10th timed run: guided, two threads, a
\* chunk size of 2, a matrix of two rows with a nonzero
C18_Witness ==
    /\ program = "csrpar"
    /\ pc = "done"
    /\ run = NUM_RUNS
    /\ omp.kind = "guided"
    /\ omp.nthreads = 2
    /\ omp.chunk = 2
    /\ csr.rows = 2
    /\ csr.nnz = 1
    /\ scan_i = 1

(***************************************************************************)
(* The sort of the construction (SpecSeq).                                 *)
(***************************************************************************)
\* triplet a comes before triplet b in (row ascending, column ascending)
KeyLess(a, b) == a.row < b.row \/ (a.row = b.row /\ a.col < b.col)

\* the stable sort of T: position k of the result holds T[StableOrder(T)[k]];
\* triplets of equal (row, col) keep the order of their positions in T
StableOrder(T) ==
    CHOOSE p \in Perms(Size(T)) :
        \A a, b \in DOMAIN T :
            a < b => \/ KeyLess(T[p[a]], T[p[b]])
                     \/ (~KeyLess(T[p[b]], T[p[a]]) /\ p[a] < p[b])

\* col_ind and values hold the triplets of T in the order p
HoldsInOrder(T, p) ==
    \A k \in DOMAIN T :
        /\ triplets[k] = T[p[k]]
        /\ csr.col_ind[k] = T[p[k]].col
        /\ csr.values[k] = T[p[k]].val

\* C19, as claimed: col_ind and values hold the input triplets in the order of
\* the stable sort by (row, column): input triplets of equal (row, col) stand
\* in the relative order they had in the input.
C19_StableSort ==
    Built => HoldsInOrder(InputTriplets, StableOrder(InputTriplets))

\* C19, amended: col_ind and values hold the input triplets, each of them once
\* (triplets of equal (row, col) are all retained), in an order that ascends
\* by (row, column); the relative order of triplets of equal (row, col) is
\* not fixed.
C19_SortedAllRetained ==
    Built =>
        LET T == InputTriplets
        IN  /\ Size(csr.col_ind) = Size(T)
            /\ Size(csr.values) = Size(T)
            /\ \E p \in Perms(Size(T)) :
                  /\ HoldsInOrder(T, p)
                  /\ \A a, b \in DOMAIN T : a < b => ~KeyLess(T[p[b]], T[p[a]])

\* two triplets of one (row, col) given as 1.0 then 5.0, built as 5.0 then 1.0,
\* after a triplet of a lower column given last
C19_Witness ==
    /\ pc = "vector"
    /\ file.nnz = 3
    /\ file.entries[0].r = file.entries[1].r
    /\ file.entries[0].c = 2
    /\ file.entries[1].c = 2
    /\ file.entries[0].v = 1
    /\ file.entries[1].v = 5
    /\ file.entries[2].r = file.entries[0].r
    /\ file.entries[2].c = 1
    /\ csr.values[1] = 5
    /\ csr.values[2] = 1

\* no two triplets of T have the same (row, col)
NoDuplicates(T) ==
    \A a, b \in DOMAIN T : a # b => (T[a].row # T[b].row \/ T[a].col # T[b].col)

\* the triplets of T in the order p
Permuted(T, p) == [k \in DOMAIN T |-> T[p[k]]]

\* C20: for input triplets without a duplicate (row, col), the matrix built
\* is the one and only matrix the construction builds from any permutation of
\* the input sequence: row_ptr, col_ind and values do not depend on the order
\* of the input.
C20_OrderIndependent ==
    (Built /\ NoDuplicates(InputTriplets)) =>
        \A p \in Perms(file.nnz) :
            BuildResults(Permuted(InputTriplets, p), file.rows, file.cols) = {csr}

\* three triplets of three different places given from the last place to the
\* first, with an empty row between them
C20_Witness ==
    /\ pc = "vector"
    /\ file.rows = 3
    /\ file.nnz = 3
    /\ NoDuplicates(InputTriplets)
    /\ file.entries[0].r = 3
    /\ file.entries[1].r = 1
    /\ file.entries[1].c = 2
    /\ file.entries[2].r = 1
    /\ file.entries[2].c = 1
    /\ file.entries[0].v # file.entries[1].v
    /\ csr.col_ind[0] = 0
    /\ csr.row_ptr[2] = 2

====
